---------------------------- MODULE Spec2Model ----------------------------
(***************************************************************************)
(* Model of libSAL/endianness.h: the host <-> device byte-order            *)
(* conversions htods/htodl/htodll/htodf/htodd and dtohs/.../dtohd, the     *)
(* preprocessor logic that selects their definitions, and the swap         *)
(* helpers they expand to.                                                 *)
(*                                                                         *)
(* A w-bit object is modelled by its bytes, least significant first:       *)
(* the value 0x01020304 is <<4, 3, 2, 1>>.  Hex writes a value the way C   *)
(* spells it (most significant byte first).  Shifts and masks work on      *)
(* these byte strings as C's do on the fixed-width unsigned types; every   *)
(* shift count in the header is a multiple of 8.  A float or double is     *)
(* modelled by its object representation (its 32 or 64 bits).              *)
(***************************************************************************)
EXTENDS Naturals, Sequences, FiniteSets

(***************************************************************************)
(* Bounds of the input space.                                              *)
(***************************************************************************)
\* number of candidate values tried for every byte of an input
NByte == 2
\* number of concurrent callers
NCallers == 2

(***************************************************************************)
(* Fixed-width unsigned arithmetic of C on byte strings.                   *)
(***************************************************************************)
Byte == 0..255

RECURSIVE AndN(_, _, _)
AndN(a, b, n) ==
    IF n = 0 THEN 0
    ELSE ((a % 2) * (b % 2)) + 2 * AndN(a \div 2, b \div 2, n - 1)

RECURSIVE OrN(_, _, _)
OrN(a, b, n) ==
    IF n = 0 THEN 0
    ELSE (IF (a % 2) + (b % 2) > 0 THEN 1 ELSE 0)
         + 2 * OrN(a \div 2, b \div 2, n - 1)

\* a & b and a | b on 4-bit digits, tabulated once
Nibble == 0..15
NibbleAnd == [a \in Nibble, b \in Nibble |-> AndN(a, b, 4)]
NibbleOr  == [a \in Nibble, b \in Nibble |-> OrN(a, b, 4)]

\* a & b and a | b on single bytes
ByteAnd(a, b) ==
    16 * NibbleAnd[a \div 16, b \div 16] + NibbleAnd[a % 16, b % 16]
ByteOr(a, b) ==
    16 * NibbleOr[a \div 16, b \div 16] + NibbleOr[a % 16, b % 16]

\* the value C spells 0x<b1><b2>...<bn>
Hex(msbFirst) ==
    [i \in 1..Len(msbFirst) |-> msbFirst[Len(msbFirst) + 1 - i]]

\* conversion to the unsigned type of n bytes: truncation or zero extension
Cast(x, n) == [i \in 1..n |-> IF i <= Len(x) THEN x[i] ELSE 0]

\* x & m, x | y at the operands' common width
BitAnd(x, m) == [i \in 1..Len(x) |-> ByteAnd(x[i], m[i])]
BitOr(x, y)  == [i \in 1..Len(x) |-> ByteOr(x[i], y[i])]

\* x << bits and x >> bits at x's width (bits a multiple of 8)
ShiftLeft(x, bits) ==
    [i \in 1..Len(x) |-> IF i > bits \div 8 THEN x[i - bits \div 8] ELSE 0]
ShiftRight(x, bits) ==
    [i \in 1..Len(x) |->
        IF i + bits \div 8 <= Len(x) THEN x[i + bits \div 8] ELSE 0]

\* the bytes of x in opposite order
Reverse(x) == [i \in 1..Len(x) |-> x[Len(x) + 1 - i]]

(***************************************************************************)
(* Byte-order macros of <endian.h>, and "not defined".                     *)
(***************************************************************************)
__LITTLE_ENDIAN == 1234
__BIG_ENDIAN == 4321
__PDP_ENDIAN == 3412
\* an identifier that is not a macro evaluates to 0 in #if
Undefined == 0

(***************************************************************************)
(* The generic (non-Apple) swap helpers.                                   *)
(***************************************************************************)
\* _libsal_bswaps with the low mask mistyped as 0x000F
_libsal_bswaps_narrowMask(orig) ==
    LET o == Cast(orig, 4)
    IN  Cast(BitOr(ShiftRight(BitAnd(o, Hex(<<0, 0, 255, 0>>)), 8),
                   ShiftLeft(BitAnd(o, Hex(<<0, 0, 0, 15>>)), 8)), 2)

\* uint16_t orig is promoted to int (4 bytes); the result converts back
_libsal_bswaps(orig) ==
    LET o == Cast(orig, 4)
    IN  Cast(BitOr(ShiftRight(BitAnd(o, Hex(<<0, 0, 255, 0>>)), 8),
                   ShiftLeft(BitAnd(o, Hex(<<0, 0, 0, 255>>)), 8)), 2)

\* _libsal_bswapl that exchanges the outer bytes only
_libsal_bswapl_outerOnly(orig) ==
    BitOr(BitOr(BitOr(
        ShiftRight(BitAnd(orig, Hex(<<255, 0, 0, 0>>)), 24),
        BitAnd(orig, Hex(<<0, 255, 0, 0>>))),
        BitAnd(orig, Hex(<<0, 0, 255, 0>>))),
        ShiftLeft(BitAnd(orig, Hex(<<0, 0, 0, 255>>)), 24))

_libsal_bswapl(orig) ==
    BitOr(BitOr(BitOr(
        ShiftRight(BitAnd(orig, Hex(<<255, 0, 0, 0>>)), 24),
        ShiftRight(BitAnd(orig, Hex(<<0, 255, 0, 0>>)), 8)),
        ShiftLeft(BitAnd(orig, Hex(<<0, 0, 255, 0>>)), 8)),
        ShiftLeft(BitAnd(orig, Hex(<<0, 0, 0, 255>>)), 24))

\* _libsal_bswapll with the second mask one byte too low
_libsal_bswapll_wrongMask(orig) ==
    BitOr(BitOr(BitOr(BitOr(BitOr(BitOr(BitOr(
        ShiftLeft(orig, 56),
        BitAnd(ShiftLeft(orig, 40), Hex(<<0, 0, 255, 0, 0, 0, 0, 0>>))),
        BitAnd(ShiftLeft(orig, 24), Hex(<<0, 0, 255, 0, 0, 0, 0, 0>>))),
        BitAnd(ShiftLeft(orig, 8), Hex(<<0, 0, 0, 255, 0, 0, 0, 0>>))),
        BitAnd(ShiftRight(orig, 8), Hex(<<0, 0, 0, 0, 255, 0, 0, 0>>))),
        BitAnd(ShiftRight(orig, 24), Hex(<<0, 0, 0, 0, 0, 255, 0, 0>>))),
        BitAnd(ShiftRight(orig, 40), Hex(<<0, 0, 0, 0, 0, 0, 255, 0>>))),
        ShiftRight(orig, 56))

_libsal_bswapll(orig) ==
    BitOr(BitOr(BitOr(BitOr(BitOr(BitOr(BitOr(
        ShiftLeft(orig, 56),
        BitAnd(ShiftLeft(orig, 40), Hex(<<0, 255, 0, 0, 0, 0, 0, 0>>))),
        BitAnd(ShiftLeft(orig, 24), Hex(<<0, 0, 255, 0, 0, 0, 0, 0>>))),
        BitAnd(ShiftLeft(orig, 8), Hex(<<0, 0, 0, 255, 0, 0, 0, 0>>))),
        BitAnd(ShiftRight(orig, 8), Hex(<<0, 0, 0, 0, 255, 0, 0, 0>>))),
        BitAnd(ShiftRight(orig, 24), Hex(<<0, 0, 0, 0, 0, 255, 0, 0>>))),
        BitAnd(ShiftRight(orig, 40), Hex(<<0, 0, 0, 0, 0, 0, 255, 0>>))),
        ShiftRight(orig, 56))

(***************************************************************************)
(* Reading an object through an lvalue of an incompatible type (the        *)
(* float orig through a uint32_t pointer, the uint32_t res through a float *)
(* pointer) is undefined: the build may read the object's bytes, or, when  *)
(* the compiler assumes the two types do not alias, a location the object  *)
(* was never stored to.  TypePun is the set of values such a read yields.  *)
(***************************************************************************)
Indeterminate(n) == {[i \in 1..n |-> b] : b \in {0, 204}}

TypePun(obj) == {obj} \cup Indeterminate(Len(obj))

\* the results a call of _libsal_bswapf / _libsal_bswapd can produce
_libsal_bswapf(orig) ==
    UNION {TypePun(_libsal_bswapl(x)) : x \in TypePun(orig)}

_libsal_bswapd(orig) ==
    UNION {TypePun(_libsal_bswapll(x)) : x \in TypePun(orig)}

(***************************************************************************)
(* The build: the platform, the host's byte order, and the macros the      *)
(* header resolves.                                                        *)
(***************************************************************************)
VARIABLES
    apple,          \* defined(__APPLE__)
    byteOrder,      \* the host's byte order (__BYTE_ORDER)
    deviceEndian,   \* __DEVICE_ENDIAN
    inverEndian,    \* __INVER_ENDIAN
    ppc,            \* the directive the preprocessor is at
    diag,           \* the lines of the #error directives reached
    macros          \* the definitions of htod*/dtoh* in effect

\* #ifndef __DEVICE_ENDIAN / # define __DEVICE_ENDIAN __LITTLE_ENDIAN
DefineDeviceEndian(given) ==
    IF given = Undefined THEN __LITTLE_ENDIAN ELSE given

\* #ifndef __INVER_ENDIAN ... #endif: the value defined, Undefined at #error
DefineInverEndian(given, dev) ==
    IF given # Undefined THEN given
    ELSE IF dev = __LITTLE_ENDIAN THEN __BIG_ENDIAN
    ELSE IF dev = __BIG_ENDIAN THEN __LITTLE_ENDIAN
    ELSE Undefined

\* whether the block reaches "#error Device endian __PDP_ENDIAN not supported"
InverEndianError(given, dev) ==
    /\ given = Undefined
    /\ dev # __LITTLE_ENDIAN
    /\ dev # __BIG_ENDIAN

\* SelectBranch with the two comparisons exchanged
SelectBranch_exchanged(order, dev, inver) ==
    IF order = inver THEN "identity"
    ELSE IF order = dev THEN "swap"
    ELSE "error"

\* #if __BYTE_ORDER == __DEVICE_ENDIAN / #elif __BYTE_ORDER == __INVER_ENDIAN
\* / #else #error
SelectBranch(order, dev, inver) ==
    IF order = dev THEN "identity"
    ELSE IF order = inver THEN "swap"
    ELSE "error"

(***************************************************************************)
(* Apple: the libkern primitives (each stands for its Int16, Int32 and     *)
(* Int64 forms) and the float/double helpers built on them.                *)
(***************************************************************************)
OSSwapHostToLittleInt(x) ==
    IF byteOrder = __LITTLE_ENDIAN THEN x ELSE Reverse(x)
OSSwapLittleToHostInt(x) ==
    IF byteOrder = __LITTLE_ENDIAN THEN x ELSE Reverse(x)
OSSwapHostToBigInt(x) ==
    IF byteOrder = __BIG_ENDIAN THEN x ELSE Reverse(x)
OSSwapBigToHostInt(x) ==
    IF byteOrder = __BIG_ENDIAN THEN x ELSE Reverse(x)

\* u.f = orig; u.i = OSSwap...Int32 (u.i); return u.f;
ARSwapHostToLittleFloat(orig) == OSSwapHostToLittleInt(Cast(orig, 4))
ARSwapLittleToHostFloat(orig) == OSSwapLittleToHostInt(Cast(orig, 4))
ARSwapHostToBigFloat(orig) == OSSwapHostToBigInt(Cast(orig, 4))
ARSwapBigToHostFloat(orig) == OSSwapBigToHostInt(Cast(orig, 4))
\* u.d = orig; u.i = OSSwap...Int64 (u.i); return u.d;
ARSwapHostToLittleDouble(orig) == OSSwapHostToLittleInt(Cast(orig, 8))
ARSwapLittleToHostDouble(orig) == OSSwapLittleToHostInt(Cast(orig, 8))
ARSwapHostToBigDouble(orig) == OSSwapHostToBigInt(Cast(orig, 8))
ARSwapBigToHostDouble(orig) == OSSwapBigToHostInt(Cast(orig, 8))

\* the Apple definitions of the ten macros: the set of results of a call
Apple_htods(x) ==
    IF deviceEndian = __LITTLE_ENDIAN
    THEN {OSSwapHostToLittleInt(Cast(x, 2))}
    ELSE {OSSwapHostToBigInt(Cast(x, 2))}
Apple_htodl(x) ==
    IF deviceEndian = __LITTLE_ENDIAN
    THEN {OSSwapHostToLittleInt(Cast(x, 4))}
    ELSE {OSSwapHostToBigInt(Cast(x, 4))}
Apple_htodll(x) ==
    IF deviceEndian = __LITTLE_ENDIAN
    THEN {OSSwapHostToLittleInt(Cast(x, 8))}
    ELSE {OSSwapHostToBigInt(Cast(x, 8))}
Apple_htodf(x) ==
    IF deviceEndian = __LITTLE_ENDIAN
    THEN {ARSwapHostToLittleFloat(x)}
    ELSE {ARSwapHostToBigFloat(x)}
Apple_htodd(x) ==
    IF deviceEndian = __LITTLE_ENDIAN
    THEN {ARSwapHostToLittleDouble(x)}
    ELSE {ARSwapHostToBigDouble(x)}
Apple_dtohs(x) ==
    IF deviceEndian = __LITTLE_ENDIAN
    THEN {OSSwapLittleToHostInt(Cast(x, 2))}
    ELSE {OSSwapBigToHostInt(Cast(x, 2))}
Apple_dtohl(x) ==
    IF deviceEndian = __LITTLE_ENDIAN
    THEN {OSSwapLittleToHostInt(Cast(x, 4))}
    ELSE {OSSwapBigToHostInt(Cast(x, 4))}
Apple_dtohll(x) ==
    IF deviceEndian = __LITTLE_ENDIAN
    THEN {OSSwapLittleToHostInt(Cast(x, 8))}
    ELSE {OSSwapBigToHostInt(Cast(x, 8))}
Apple_dtohf(x) ==
    IF deviceEndian = __LITTLE_ENDIAN
    THEN {ARSwapLittleToHostFloat(x)}
    ELSE {ARSwapBigToHostFloat(x)}
Apple_dtohd(x) ==
    IF deviceEndian = __LITTLE_ENDIAN
    THEN {ARSwapLittleToHostDouble(x)}
    ELSE {ARSwapBigToHostDouble(x)}

(***************************************************************************)
(* Generic: (v) when __BYTE_ORDER == __DEVICE_ENDIAN, the _libsal_bswap*   *)
(* call between the casts when __BYTE_ORDER == __INVER_ENDIAN.             *)
(***************************************************************************)
Generic_htods(x) ==
    IF macros = "identity" THEN {x}
    ELSE {Cast(_libsal_bswaps(Cast(x, 2)), Len(x))}
\* htodl that never swaps
Generic_htodl_noSwap(x) == {x}

Generic_htodl(x) ==
    IF macros = "identity" THEN {x}
    ELSE {Cast(_libsal_bswapl(Cast(x, 4)), Len(x))}
Generic_htodll(x) ==
    IF macros = "identity" THEN {x}
    ELSE {Cast(_libsal_bswapll(Cast(x, 8)), Len(x))}
Generic_htodf(x) ==
    IF macros = "identity" THEN {x} ELSE _libsal_bswapf(x)
Generic_htodd(x) ==
    IF macros = "identity" THEN {x} ELSE _libsal_bswapd(x)
Generic_dtohs(x) ==
    IF macros = "identity" THEN {x}
    ELSE {Cast(_libsal_bswaps(Cast(x, 2)), Len(x))}
Generic_dtohl(x) ==
    IF macros = "identity" THEN {x}
    ELSE {Cast(_libsal_bswapl(Cast(x, 4)), Len(x))}
Generic_dtohll(x) ==
    IF macros = "identity" THEN {x}
    ELSE {Cast(_libsal_bswapll(Cast(x, 8)), Len(x))}
Generic_dtohf(x) ==
    IF macros = "identity" THEN {x} ELSE _libsal_bswapf(x)
Generic_dtohd(x) ==
    IF macros = "identity" THEN {x} ELSE _libsal_bswapd(x)

\* the macros as the including file sees them
htods(x) == IF apple THEN Apple_htods(x) ELSE Generic_htods(x)
htodl(x) == IF apple THEN Apple_htodl(x) ELSE Generic_htodl(x)
htodll(x) == IF apple THEN Apple_htodll(x) ELSE Generic_htodll(x)
htodf(x) == IF apple THEN Apple_htodf(x) ELSE Generic_htodf(x)
htodd(x) == IF apple THEN Apple_htodd(x) ELSE Generic_htodd(x)
dtohs(x) == IF apple THEN Apple_dtohs(x) ELSE Generic_dtohs(x)
dtohl(x) == IF apple THEN Apple_dtohl(x) ELSE Generic_dtohl(x)
dtohll(x) == IF apple THEN Apple_dtohll(x) ELSE Generic_dtohll(x)
dtohf(x) == IF apple THEN Apple_dtohf(x) ELSE Generic_dtohf(x)
dtohd(x) == IF apple THEN Apple_dtohd(x) ELSE Generic_dtohd(x)

(***************************************************************************)
(* The inputs: every word whose byte i is one of NByte candidates (the     *)
(* first candidate differs from byte to byte), and the edge values.        *)
(***************************************************************************)
Candidates(i) == <<i, 255, 0, 128, 127, 165>>

Choice(i) ==
    {Candidates(i)[k] : k \in {j \in 1..Len(Candidates(i)) : j <= NByte}}

RECURSIVE Words(_)
Words(n) ==
    IF n = 0 THEN {<< >>}
    ELSE {Append(w, b) : w \in Words(n - 1), b \in Choice(n)}

\* 0, all-ones, INT16_MIN, INT16_MAX, 0x0102
Ints16 ==
    Words(2) \cup {Hex(<<0, 0>>), Hex(<<255, 255>>), Hex(<<128, 0>>),
                   Hex(<<127, 255>>), Hex(<<1, 2>>)}

\* 0, all-ones, INT32_MIN, INT32_MAX, 1, 0x01020304
Ints32 ==
    Words(4) \cup {Hex(<<0, 0, 0, 0>>), Hex(<<255, 255, 255, 255>>),
                   Hex(<<128, 0, 0, 0>>), Hex(<<127, 255, 255, 255>>),
                   Hex(<<0, 0, 0, 1>>), Hex(<<1, 2, 3, 4>>)}

\* 0, all-ones, INT64_MIN, INT64_MAX, 0x0102030405060708
Ints64 ==
    Words(8) \cup {Hex(<<0, 0, 0, 0, 0, 0, 0, 0>>),
                   Hex(<<255, 255, 255, 255, 255, 255, 255, 255>>),
                   Hex(<<128, 0, 0, 0, 0, 0, 0, 0>>),
                   Hex(<<127, 255, 255, 255, 255, 255, 255, 255>>),
                   Hex(<<1, 2, 3, 4, 5, 6, 7, 8>>)}

\* 1.0f, +inf, -inf, quiet NaN, quiet NaN with payload 0x012345,
\* signalling NaN, smallest and largest subnormal, -0.0f
Floats ==
    Words(4) \cup {Hex(<<63, 128, 0, 0>>), Hex(<<127, 128, 0, 0>>),
                   Hex(<<255, 128, 0, 0>>), Hex(<<127, 192, 0, 0>>),
                   Hex(<<127, 193, 35, 69>>), Hex(<<127, 160, 0, 1>>),
                   Hex(<<0, 0, 0, 1>>), Hex(<<0, 127, 255, 255>>),
                   Hex(<<128, 0, 0, 0>>)}

\* 1.0, +inf, -inf, quiet NaN, quiet NaN with a payload, signalling NaN,
\* smallest and largest subnormal, -0.0, and words with a fixed low half
Doubles ==
    {<<1, 2, 3, 4>> \o w : w \in Words(4)}
    \cup {Hex(<<63, 240, 0, 0, 0, 0, 0, 0>>),
          Hex(<<127, 240, 0, 0, 0, 0, 0, 0>>),
          Hex(<<255, 240, 0, 0, 0, 0, 0, 0>>),
          Hex(<<127, 248, 0, 0, 0, 0, 0, 0>>),
          Hex(<<127, 248, 222, 173, 190, 239, 0, 1>>),
          Hex(<<127, 244, 0, 0, 0, 0, 0, 1>>),
          Hex(<<0, 0, 0, 0, 0, 0, 0, 1>>),
          Hex(<<0, 15, 255, 255, 255, 255, 255, 255>>),
          Hex(<<128, 0, 0, 0, 0, 0, 0, 0>>)}

Types == {"s", "l", "ll", "f", "d"}

Inputs(t) ==
    CASE t = "s" -> Ints16
      [] t = "l" -> Ints32
      [] t = "ll" -> Ints64
      [] t = "f" -> Floats
      [] t = "d" -> Doubles

(***************************************************************************)
(* A caller's use of the macros on one value v of type ty.                 *)
(***************************************************************************)
VARIABLES
    ty,     \* the type of v: short, long, long long, float, double
    v,      \* the caller's value
    enc,    \* htodX(v)
    rcv,    \* dtohX(v)
    back,   \* dtohX(enc)
    wire,   \* the bytes of enc in the caller's buffer, by increasing address
    rd,     \* dtohl of the value read back from wire
    threads \* the concurrent callers: each one's call and its progress

build == <<apple, byteOrder, deviceEndian, inverEndian, ppc, diag, macros>>
caller == <<ty, v, enc, rcv, back, wire, rd>>
vars == <<build, caller, threads>>

\* no result yet
None == << >>

\* the object representation of x in the host's memory, and its reading
Memory(x) == IF byteOrder = __LITTLE_ENDIAN THEN x ELSE Reverse(x)
Load(bytes) == IF byteOrder = __LITTLE_ENDIAN THEN bytes ELSE Reverse(bytes)

Init ==
    /\ apple \in BOOLEAN
    /\ byteOrder \in {__LITTLE_ENDIAN, __BIG_ENDIAN}
    /\ \E given \in {Undefined, __LITTLE_ENDIAN, __BIG_ENDIAN} :
          /\ deviceEndian = DefineDeviceEndian(given)
          /\ inverEndian = DefineInverEndian(Undefined, deviceEndian)
    /\ ppc = "done"
    /\ diag = {}
    /\ macros = IF apple THEN "apple"
                ELSE SelectBranch(byteOrder, deviceEndian, inverEndian)
    /\ threads = << >>
    /\ ty \in Types
    /\ v \in Inputs(ty)
    /\ enc = None
    /\ rcv = None
    /\ back = None
    /\ wire = None
    /\ rd = None

\* enc = htodX(v): results is what the call can return
CallHtod(results) ==
    /\ enc = None
    /\ \E r \in results : enc' = r
    /\ UNCHANGED <<build, threads, ty, v, rcv, back, wire, rd>>

\* rcv = dtohX(v), or back = dtohX(enc)
CallDtoh(ofV, ofEnc) ==
    \/ /\ rcv = None
       /\ \E r \in ofV : rcv' = r
       /\ UNCHANGED <<build, threads, ty, v, enc, back, wire, rd>>
    \/ /\ enc # None
       /\ back = None
       /\ \E r \in ofEnc : back' = r
       /\ UNCHANGED <<build, threads, ty, v, enc, rcv, wire, rd>>

Call_htods == ty = "s" /\ CallHtod(htods(v))
Call_htodl == ty = "l" /\ CallHtod(htodl(v))
Call_htodll == ty = "ll" /\ CallHtod(htodll(v))
Call_htodf == ty = "f" /\ CallHtod(htodf(v))
Call_htodd == ty = "d" /\ CallHtod(htodd(v))
Call_dtohs == ty = "s" /\ CallDtoh(dtohs(v), dtohs(enc))
Call_dtohll == ty = "ll" /\ CallDtoh(dtohll(v), dtohll(enc))
Call_dtohf == ty = "f" /\ CallDtoh(dtohf(v), dtohf(enc))
Call_dtohd == ty = "d" /\ CallDtoh(dtohd(v), dtohd(enc))

\* the caller copies the encoded 32-bit field into its buffer
Store ==
    /\ ty = "l"
    /\ enc # None
    /\ wire = None
    /\ wire' = Memory(enc)
    /\ UNCHANGED <<build, threads, ty, v, enc, rcv, back, rd>>

\* dtohl on v, on enc, or on the field read back from the buffer
Call_dtohl ==
    /\ ty = "l"
    /\ \/ CallDtoh(dtohl(v), dtohl(enc))
       \/ /\ wire # None
          /\ rd = None
          /\ \E r \in dtohl(Load(wire)) : rd' = r
          /\ UNCHANGED <<build, threads, ty, v, enc, rcv, back, wire>>

Next ==
    \/ Call_htods
    \/ Call_htodl
    \/ Call_htodll
    \/ Call_htodf
    \/ Call_htodd
    \/ Call_dtohs
    \/ Call_dtohl
    \/ Call_dtohll
    \/ Call_dtohf
    \/ Call_dtohd
    \/ Store

Spec == Init /\ [][Next]_vars

(***************************************************************************)
(* The preprocessor's pass over the generic branch of the header, from     *)
(* what the builder predefines (-D__DEVICE_ENDIAN=..., -D__INVER_ENDIAN=...)*)
(* on a host of any byte order.  A #error ends the translation.            *)
(***************************************************************************)
Orders == {__LITTLE_ENDIAN, __BIG_ENDIAN, __PDP_ENDIAN}

InitBuild ==
    /\ apple = FALSE
    /\ byteOrder \in Orders
    /\ deviceEndian \in Orders \cup {Undefined}
    /\ inverEndian \in Orders \cup {Undefined}
    /\ ppc = "ifndef __DEVICE_ENDIAN"
    /\ diag = {}
    /\ macros = "none"
    /\ threads = << >>
    /\ ty = "s"
    /\ v = None
    /\ enc = None
    /\ rcv = None
    /\ back = None
    /\ wire = None
    /\ rd = None

\* #ifndef __DEVICE_ENDIAN ... #endif
PP_DeviceEndian ==
    /\ ppc = "ifndef __DEVICE_ENDIAN"
    /\ deviceEndian' = DefineDeviceEndian(deviceEndian)
    /\ ppc' = "ifndef __INVER_ENDIAN"
    /\ UNCHANGED <<apple, byteOrder, inverEndian, diag, macros,
                   caller, threads>>

\* #ifndef __INVER_ENDIAN ... #endif
PP_InverEndian ==
    /\ ppc = "ifndef __INVER_ENDIAN"
    /\ IF InverEndianError(inverEndian, deviceEndian)
       THEN /\ diag' = diag \cup {337}
            /\ ppc' = "failed"
            /\ UNCHANGED inverEndian
       ELSE /\ inverEndian' = DefineInverEndian(inverEndian, deviceEndian)
            /\ ppc' = "if __BYTE_ORDER"
            /\ UNCHANGED diag
    /\ UNCHANGED <<apple, byteOrder, deviceEndian, macros, caller, threads>>

\* #if __BYTE_ORDER == __DEVICE_ENDIAN ... #elif ... #else #error #endif
PP_ByteOrder ==
    /\ ppc = "if __BYTE_ORDER"
    /\ LET branch == SelectBranch(byteOrder, deviceEndian, inverEndian)
       IN  IF branch = "error"
           THEN /\ diag' = diag \cup {507}
                /\ ppc' = "failed"
                /\ UNCHANGED macros
           ELSE /\ macros' = branch
                /\ ppc' = "done"
                /\ UNCHANGED diag
    /\ UNCHANGED <<apple, byteOrder, deviceEndian, inverEndian,
                   caller, threads>>

NextBuild ==
    \/ PP_DeviceEndian
    \/ PP_InverEndian
    \/ PP_ByteOrder

SpecBuild == InitBuild /\ [][NextBuild]_vars

(***************************************************************************)
(* Concurrent callers.  A call copies its argument into the callee's       *)
(* parameter and later returns; the helpers are static inline functions of *)
(* their parameter and locals, the other macros are expressions.           *)
(***************************************************************************)
Callers == 1..NCallers

MacroNames ==
    {"htods", "htodl", "htodll", "htodf", "htodd",
     "dtohs", "dtohl", "dtohll", "dtohf", "dtohd"}

\* the results a call of macro fn on x can produce
Expand(fn, x) ==
    CASE fn = "htods" -> htods(x)
      [] fn = "htodl" -> htodl(x)
      [] fn = "htodll" -> htodll(x)
      [] fn = "htodf" -> htodf(x)
      [] fn = "htodd" -> htodd(x)
      [] fn = "dtohs" -> dtohs(x)
      [] fn = "dtohl" -> dtohl(x)
      [] fn = "dtohll" -> dtohll(x)
      [] fn = "dtohf" -> dtohf(x)
      [] fn = "dtohd" -> dtohd(x)

\* the arguments the callers pass
Arguments(fn) ==
    CASE fn \in {"htods", "dtohs"} -> {Hex(<<1, 2>>), Hex(<<128, 0>>)}
      [] fn \in {"htodl", "dtohl"} -> {Hex(<<1, 2, 3, 4>>)}
      [] fn \in {"htodll", "dtohll"} -> {Hex(<<1, 2, 3, 4, 5, 6, 7, 8>>)}
      [] fn \in {"htodf", "dtohf"} ->
            {Hex(<<63, 128, 0, 0>>), Hex(<<127, 193, 35, 69>>)}
      [] fn \in {"htodd", "dtohd"} -> {Hex(<<63, 240, 0, 0, 0, 0, 0, 0>>)}

Calls ==
    UNION {{[fn |-> f, arg |-> a, pc |-> "ready", orig |-> None,
             ret |-> None] : a \in Arguments(f)} : f \in MacroNames}

InitThreads ==
    /\ apple \in BOOLEAN
    /\ byteOrder \in {__LITTLE_ENDIAN, __BIG_ENDIAN}
    /\ deviceEndian \in {__LITTLE_ENDIAN, __BIG_ENDIAN}
    /\ inverEndian = DefineInverEndian(Undefined, deviceEndian)
    /\ ppc = "done"
    /\ diag = {}
    /\ macros = IF apple THEN "apple"
                ELSE SelectBranch(byteOrder, deviceEndian, inverEndian)
    /\ threads \in [Callers -> Calls]
    /\ ty = "s"
    /\ v = None
    /\ enc = None
    /\ rcv = None
    /\ back = None
    /\ wire = None
    /\ rd = None

\* the argument is passed by value
Thread_Call(p) ==
    /\ threads[p].pc = "ready"
    /\ threads' = [threads EXCEPT ![p].orig = threads[p].arg,
                                  ![p].pc = "called"]
    /\ UNCHANGED <<build, caller>>

Thread_Return(p) ==
    /\ threads[p].pc = "called"
    /\ \E r \in Expand(threads[p].fn, threads[p].orig) :
          threads' = [threads EXCEPT ![p].ret = r, ![p].pc = "returned"]
    /\ UNCHANGED <<build, caller>>

NextThreads ==
    \/ \E p \in Callers : Thread_Call(p)
    \/ \E p \in Callers : Thread_Return(p)

SpecThreads == InitThreads /\ [][NextThreads]_vars

(***************************************************************************)
(* Properties of a caller's conversions (Spec).                            *)
(***************************************************************************)
IntTypes == {"s", "l", "ll"}

\* C1: for the 16-, 32- and 64-bit integers, on every build, converting to
\* device order and back returns the original value: dtohX(htodX(v)) = v.
C1_Involution ==
    (ty \in IntTypes /\ back # None) => back = v

C1_Witness ==
    /\ ~apple
    /\ macros = "swap"
    /\ ty = "s"
    /\ v = Hex(<<127, 255>>)
    /\ enc = Hex(<<255, 127>>)
    /\ back = v

\* C2: the bytes of htodl(v) in host memory, by increasing address, are v's
\* bytes in device order (most significant first for a big-endian device,
\* least significant first for a little-endian one), and dtohl of the value
\* read back from them is v; a little-endian host encodes 1 for a
\* big-endian device as 00 00 00 01 and decodes it to 1.
C2_WireLayout ==
    ty = "l" =>
        /\ wire # None =>
              wire = [i \in 1..4 |->
                         IF deviceEndian = __BIG_ENDIAN THEN v[5 - i]
                         ELSE v[i]]
        /\ rd # None => rd = v
        /\ ( /\ byteOrder = __LITTLE_ENDIAN
             /\ deviceEndian = __BIG_ENDIAN
             /\ v = Hex(<<0, 0, 0, 1>>) ) =>
              /\ wire # None => wire = <<0, 0, 0, 1>>
              /\ rd # None => rd = Hex(<<0, 0, 0, 1>>)

C2_Witness ==
    /\ ~apple
    /\ byteOrder = __LITTLE_ENDIAN
    /\ deviceEndian = __BIG_ENDIAN
    /\ ty = "l"
    /\ v = Hex(<<0, 0, 0, 1>>)
    /\ wire = <<0, 0, 0, 1>>
    /\ rd = v

\* C3: when the host's byte order differs from the device's, byte i of
\* htodll(v) is byte 7-i of v, and htodll(0x0102030405060708) is
\* 0x0807060504030201.
C3_Swap64 ==
    (ty = "ll" /\ enc # None /\ byteOrder # deviceEndian) =>
        /\ Len(enc) = 8
        /\ \A i \in 1..8 : enc[i] = v[9 - i]
        /\ v = Hex(<<1, 2, 3, 4, 5, 6, 7, 8>>) =>
              enc = Hex(<<8, 7, 6, 5, 4, 3, 2, 1>>)

C3_Witness ==
    /\ ~apple
    /\ byteOrder # deviceEndian
    /\ ty = "ll"
    /\ v = Hex(<<1, 2, 3, 4, 5, 6, 7, 8>>)
    /\ enc = Hex(<<8, 7, 6, 5, 4, 3, 2, 1>>)

\* C4: when the host's byte order differs from the device's, byte i of
\* htodl(v) is byte 3-i of v, and htodl(0x01020304) is 0x04030201.
C4_Swap32 ==
    (ty = "l" /\ enc # None /\ byteOrder # deviceEndian) =>
        /\ Len(enc) = 4
        /\ \A i \in 1..4 : enc[i] = v[5 - i]
        /\ v = Hex(<<1, 2, 3, 4>>) => enc = Hex(<<4, 3, 2, 1>>)

C4_Witness ==
    /\ ~apple
    /\ byteOrder # deviceEndian
    /\ ty = "l"
    /\ v = Hex(<<1, 2, 3, 4>>)
    /\ enc = Hex(<<4, 3, 2, 1>>)

\* C5: when the device's byte order is the host's, each of the ten
\* conversions returns its input unchanged, whatever the bit pattern.
C5_Identity ==
    byteOrder = deviceEndian =>
        /\ enc # None => enc = v
        /\ rcv # None => rcv = v

C5_Witness ==
    /\ ~apple
    /\ byteOrder = deviceEndian
    /\ ty = "f"
    /\ v = Hex(<<127, 193, 35, 69>>)
    /\ enc = v
    /\ rcv = v

AppleHtod(t, x) ==
    CASE t = "s" -> Apple_htods(x)
      [] t = "l" -> Apple_htodl(x)
      [] t = "ll" -> Apple_htodll(x)
      [] t = "f" -> Apple_htodf(x)
      [] t = "d" -> Apple_htodd(x)

AppleDtoh(t, x) ==
    CASE t = "s" -> Apple_dtohs(x)
      [] t = "l" -> Apple_dtohl(x)
      [] t = "ll" -> Apple_dtohll(x)
      [] t = "f" -> Apple_dtohf(x)
      [] t = "d" -> Apple_dtohd(x)

C7_UnsupportedHostFails ==
    ( /\ ppc \in {"done", "failed"}
      /\ byteOrder \notin {__LITTLE_ENDIAN, __BIG_ENDIAN} ) =>
        /\ diag # {}
        /\ macros = "none"

=============================================================================
